---- MODULE Spec2Model ----
(***************************************************************************)
(* Gene-Disease-Trends: incremental PubMed retrieval with a per-term JSON  *)
(* cache (data_retrieval.py), gene/disease pair extraction (ner.py), the   *)
(* co-mention graph (graph_builder.py) and the per-edge temporal analysis  *)
(* (temporal_analysis.py).                                                 *)
(*                                                                         *)
(* One module, several specifications over the same variables:             *)
(*   Spec        retrieve_full_data runs against the term's cache file     *)
(*   SpecIdem    two runs in succession against unchanged upstream data    *)
(*   SpecSearch  _search_year against every stream of HTTP responses       *)
(*   SpecFetch   _fetch_pmids against the responses to each of its batches *)
(*   SpecPairs   extract_gene_disease_pairs over annotated documents       *)
(*   SpecTags    annotate_pmids over tags with packed identifiers          *)
(*   SpecGraph   build_temporal_graph and analyze_temporal_edges           *)
(*   SpecReport  analyze_temporal_edges over any graph that may be loaded  *)
(* Each specification leaves the variables of the others untouched.        *)
(***************************************************************************)
EXTENDS Integers, Sequences, FiniteSets, TLC

VARIABLES
    now,        \* datetime.now().year
    disk,       \* the term's cache file data/<term>.json
    pc,         \* position of the process inside retrieve_full_data
    exit,       \* how the last call of retrieve_full_data ended
    local,      \* the locals of the running retrieve_full_data call
    settled,    \* the years that a saved run had completed on an empty search
    upstream,   \* SpecIdem: the identifier list the search service holds per year
    runsDone,   \* SpecIdem: completed calls of retrieve_full_data
    diskAfter1, \* SpecIdem: the cache file as the first completed call left it
    idemArgs,   \* SpecIdem: the (start_year, end_year) both calls are given
    sy_resps,   \* SpecSearch: the responses the search service gives, in order
    sy_out,     \* SpecSearch: what _search_year made of them
    f_pmids,    \* SpecFetch: the identifiers handed to _fetch_pmids
    f_resps,    \* SpecFetch: per batch, the responses the fetch service gives
    f_out,      \* SpecFetch: what _fetch_pmids made of them
    p_records,  \* SpecPairs: the records handed to extract_gene_disease_pairs
    p_docs,     \* SpecPairs: the pmids the tagging service returns a document for
    p_denots,   \* SpecPairs: the denotations of the returned documents, in order
    p_ann,      \* SpecPairs: annotate_pmids' result, pmid -> genes, diseases
    p_keys,     \* SpecPairs: the pmids of ann.items() still to be visited
    p_results,  \* SpecPairs: the list results of extract_gene_disease_pairs
    p_pc,       \* SpecPairs: position inside extract_gene_disease_pairs
    g_pairs,    \* SpecGraph: the pairs build_temporal_graph has folded, in order
    G,          \* SpecGraph: the networkx graph
    g_pc,       \* SpecGraph: "build", then "analyzed"
    report      \* SpecGraph: what analyze_temporal_edges returned

rvars == <<now, disk, pc, exit, local, settled>>
ivars == <<upstream, runsDone, diskAfter1, idemArgs>>
svars == <<sy_resps, sy_out>>
pvars == <<p_records, p_docs, p_denots, p_ann, p_keys, p_results, p_pc>>
gvars == <<g_pairs, G, g_pc, report>>
fvars == <<f_pmids, f_resps, f_out>>
vars == <<now, disk, pc, exit, local, settled, upstream, runsDone, diskAfter1, idemArgs,
          sy_resps, sy_out,
          p_records, p_docs, p_denots, p_ann, p_keys, p_results, p_pc,
          g_pairs, G, g_pc, report, f_pmids, f_resps, f_out>>

(***************************************************************************)
(* Bounds and program constants                                            *)
(***************************************************************************)
FirstYear == 2000
NumYears == 2
Years == FirstYear .. (FirstYear + NumYears - 1)

\* identifiers the search service may list (opaque strings)
PMIDS == {"11", "12"}
MaxIds == 3
\* the batch size handed to _fetch_pmids (config.BATCH_SIZE, scaled down)
BATCH_SIZE == 2

max_retries == 3
\* one response more than the retry cap, so that a request too many is visible
StreamLen == max_retries + 1

(***************************************************************************)
(* Helpers on sequences                                                    *)
(***************************************************************************)
Range(s) == {s[i] : i \in DOMAIN s}

SeqsUpTo(S, n) == UNION {[1..k -> S] : k \in 0..n}

NoDup(s) == \A i, j \in DOMAIN s : i # j => s[i] # s[j]

Count(s, x) == Cardinality({i \in DOMAIN s : s[i] = x})

Min2(a, b) == IF a < b THEN a ELSE b

\* the first occurrence of every element, in order
RECURSIVE Distinct(_)
Distinct(s) ==
    IF s = <<>> THEN <<>>
    ELSE LET front == Distinct(SubSeq(s, 1, Len(s) - 1))
         IN IF s[Len(s)] \in Range(front) THEN front ELSE Append(front, s[Len(s)])

IdLists == SeqsUpTo(PMIDS, MaxIds)

\* [r["pmid"] for r in records]
Pmids(records) == [i \in DOMAIN records |-> records[i].pmid]

(***************************************************************************)
(* The cache file                                                          *)
(***************************************************************************)
Absent == [kind |-> "absent"]
\* open(path, "w") has truncated the file and json.dump has not finished:
\* an empty or partial text that json.load rejects
Torn == [kind |-> "torn"]
JsonFile(data) == [kind |-> "json", completed_years |-> data.completed_years,
                   records |-> data.records]

EmptyData == [completed_years |-> <<>>, records |-> <<>>]

\* _load_data, on a file that json.load accepts or that does not exist
_load_data(file) ==
    IF file.kind = "json"
    THEN [completed_years |-> file.completed_years, records |-> file.records]
    ELSE EmptyData

(***************************************************************************)
(* HTTP responses                                                          *)
(***************************************************************************)
\* parses: whether the body is the JSON (esearch) or XML (efetch) it should be
Resp(status, body) == [status |-> status, body |-> body, parses |-> TRUE]
R429 == Resp(429, <<>>)
R500 == Resp(500, <<>>)
Malformed == [status |-> 200, body |-> <<>>, parses |-> FALSE]

\* requests' raise_for_status: 4xx and 5xx raise HTTPError
IsHttpError(resp) == resp.status >= 400 /\ resp.status < 600

(***************************************************************************)
(* _search_year: resps[i] is the answer to the i-th request                *)
(***************************************************************************)
\* a retry loop that runs one attempt too many
SearchRetriesOneMore == max_retries + 1

\* line 63: range(1, max_retries + 1)
SearchRetries == max_retries

RECURSIVE SearchAttempt(_, _)
SearchAttempt(resps, attempt) ==
    IF attempt > SearchRetries
    THEN [idlist |-> <<>>, requests |-> attempt - 1, raised |-> FALSE]
    ELSE LET resp == resps[attempt]
         IN IF resp.status = 429 THEN SearchAttempt(resps, attempt + 1)
            ELSE IF IsHttpError(resp)
            THEN [idlist |-> <<>>, requests |-> attempt, raised |-> FALSE]
            ELSE IF ~resp.parses
            THEN [idlist |-> <<>>, requests |-> attempt, raised |-> TRUE]
            ELSE [idlist |-> resp.body, requests |-> attempt, raised |-> FALSE]

_search_year(resps) == SearchAttempt(resps, 1)

(***************************************************************************)
(* _fetch_pmids, one batch: the records of the batch's response            *)
(***************************************************************************)
\* one record per PubmedArticle of the response (title, abstract and year
\* are payload that retrieval never reads)
Record(pmid) == [pmid |-> pmid]
Articles(ids) == [i \in DOMAIN ids |-> Record(ids[i])]

RECURSIVE FetchAttempt(_, _)
FetchAttempt(resps, attempt) ==
    IF attempt > max_retries
    THEN [records |-> <<>>, raised |-> FALSE]
    ELSE LET resp == resps[attempt]
         IN IF resp.status = 429 THEN FetchAttempt(resps, attempt + 1)
            ELSE IF IsHttpError(resp)
            THEN [records |-> <<>>, raised |-> FALSE]
            ELSE IF ~resp.parses
            THEN [records |-> <<>>, raised |-> TRUE]
            ELSE [records |-> resp.body, raised |-> FALSE]

_chunked(pmids, pos, size) == SubSeq(pmids, pos, Min2(pos + size - 1, Len(pmids)))

\* a fetch that gives up at the first batch that brings no record
RECURSIVE FetchUntilFailure(_, _, _, _)
FetchUntilFailure(pmids, batch_size, resps, pos) ==
    IF pos > Len(pmids) THEN [records |-> <<>>, batches |-> <<>>, raised |-> FALSE]
    ELSE LET chunk == _chunked(pmids, pos, batch_size)
             out == FetchAttempt(resps[((pos - 1) \div batch_size) + 1], 1)
             rest == FetchUntilFailure(pmids, batch_size, resps, pos + batch_size)
         IN IF out.raised
            THEN [records |-> <<>>, batches |-> <<chunk>>, raised |-> TRUE]
            ELSE IF out.records = <<>>
            THEN [records |-> <<>>, batches |-> <<chunk>>, raised |-> FALSE]
            ELSE [records |-> out.records \o rest.records,
                  batches |-> <<chunk>> \o rest.batches, raised |-> rest.raised]

\* lines 82-120: the batches from position pos on; resps[b] answers the
\* requests of batch b, batches lists the chunks requested. ET.fromstring
\* raises on a body that is no XML, and the call ends there.
RECURSIVE FetchFrom(_, _, _, _)
FetchFrom(pmids, batch_size, resps, pos) ==
    IF pos > Len(pmids) THEN [records |-> <<>>, batches |-> <<>>, raised |-> FALSE]
    ELSE LET chunk == _chunked(pmids, pos, batch_size)
             out == FetchAttempt(resps[((pos - 1) \div batch_size) + 1], 1)
             rest == FetchFrom(pmids, batch_size, resps, pos + batch_size)
         IN IF out.raised
            THEN [records |-> <<>>, batches |-> <<chunk>>, raised |-> TRUE]
            ELSE [records |-> out.records \o rest.records,
                  batches |-> <<chunk>> \o rest.batches, raised |-> rest.raised]

_fetch_pmids(pmids, batch_size, resps) == FetchFrom(pmids, batch_size, resps, 1)

(***************************************************************************)
(* The services as retrieve_full_data meets them: k rate-limited answers,  *)
(* then always the answer r                                                *)
(***************************************************************************)
Stream(k, r) == [i \in 1..StreamLen |-> IF i <= k THEN R429 ELSE r]

SearchAnswers == {R500} \cup {Resp(200, l) : l \in IdLists} \cup {Malformed}
SearchStreams == {Stream(k, r) : k \in 0..max_retries, r \in SearchAnswers}

\* efetch answers a batch with one article per requested id; whether an id
\* listed twice in one request comes back once or twice is the service's choice
FetchAnswers(chunk) ==
    {R500, Resp(200, Articles(chunk)), Resp(200, Articles(Distinct(chunk))),
     Malformed}
FetchStreams(chunk) == {Stream(k, r) : k \in 0..max_retries, r \in FetchAnswers(chunk)}

(***************************************************************************)
(* retrieve_full_data                                                      *)
(***************************************************************************)
NoLocal == [start_year |-> 0, end_year |-> 0, year |-> 0, data |-> EmptyData,
            done |-> {}, existing |-> {}, updated |-> FALSE, new_pmids |-> <<>>,
            pos |-> 0, records |-> <<>>, searched |-> <<>>, emptied |-> {},
            disk0 |-> Absent]

is_current(year) == year = now

\* a skip test that forgets the current year
ShouldSkipDone(year, done) == year \in done

\* line 138: a completed year is skipped unless it is the current year
ShouldSkip(year, done) == year \in done /\ ~is_current(year)

\* lines 147-149, 155-157, 165-166: the year is completed unless it is current
MarkCompleted(data, year) ==
    IF is_current(year) THEN data
    ELSE [data EXCEPT !.completed_years = Append(@, year)]

\* line 152
NewPmids(pmids, existing) == SelectSeq(pmids, LAMBDA p : p \notin existing)

\* lines 129-133: the call starts; json.load raises on a torn file. A call
\* without end_year is the call with end_year = now (line 129).
StartRun(start_year, end_year) ==
    /\ pc = "idle"
    /\ IF disk.kind = "torn"
       THEN /\ exit' = "raised"
            /\ UNCHANGED <<pc, local>>
       ELSE /\ pc' = "loop"
            /\ exit' = "running"
            /\ local' = [NoLocal EXCEPT
                   !.start_year = start_year,
                   !.end_year = end_year,
                   !.year = start_year,
                   !.data = _load_data(disk),
                   !.done = Range(_load_data(disk).completed_years),
                   !.existing = {r.pmid : r \in Range(_load_data(disk).records)},
                   !.disk0 = disk]
    /\ UNCHANGED <<now, disk, settled>>

\* lines 138-140
SkipYear ==
    /\ pc = "loop"
    /\ local.year <= local.end_year
    /\ ShouldSkip(local.year, local.done)
    /\ local' = [local EXCEPT !.year = @ + 1]
    /\ UNCHANGED <<now, disk, pc, exit, settled>>

\* lines 142-160: one search, then either the year is settled or a fetch begins
SearchYear(resps) ==
    /\ pc = "loop"
    /\ local.year <= local.end_year
    /\ ~ShouldSkip(local.year, local.done)
    /\ LET out == _search_year(resps)
           pmids == out.idlist
           new_pmids == NewPmids(pmids, local.existing)
           logged == Append(local.searched, local.year)
       IN IF out.raised
          THEN /\ pc' = "idle"
               /\ exit' = "raised"
               /\ local' = NoLocal
          ELSE IF new_pmids = <<>>
          THEN /\ local' = [local EXCEPT
                      !.data = MarkCompleted(@, local.year),
                      !.updated = @ \/ ~is_current(local.year),
                      !.year = @ + 1,
                      !.searched = logged,
                      !.emptied = IF pmids = <<>> /\ ~is_current(local.year)
                                  THEN @ \cup {local.year} ELSE @]
               /\ UNCHANGED <<pc, exit>>
          ELSE /\ pc' = "fetch"
               /\ local' = [local EXCEPT !.new_pmids = new_pmids, !.pos = 1,
                                         !.records = <<>>, !.searched = logged]
               /\ UNCHANGED exit
    /\ UNCHANGED <<now, disk, settled>>

\* lines 83-119 for one batch, and lines 162-168 after the last batch
FetchBatch(resps) ==
    /\ pc = "fetch"
    /\ LET out == FetchAttempt(resps, 1)
           recs == local.records \o out.records
           next == local.pos + BATCH_SIZE
       IN IF out.raised
          THEN /\ pc' = "idle"
               /\ exit' = "raised"
               /\ local' = NoLocal
          ELSE IF next <= Len(local.new_pmids)
          THEN /\ local' = [local EXCEPT !.pos = next, !.records = recs]
               /\ UNCHANGED <<pc, exit>>
          ELSE /\ pc' = "loop"
               /\ local' = [local EXCEPT
                      !.data = MarkCompleted(
                                  [@ EXCEPT !.records = @ \o recs], local.year),
                      !.existing = @ \cup Range(local.new_pmids),
                      !.updated = TRUE,
                      !.year = @ + 1,
                      !.new_pmids = <<>>, !.pos = 0, !.records = <<>>]
               /\ UNCHANGED exit
    /\ UNCHANGED <<now, disk, settled>>

\* line 170, and line 39 when something changed: open(path, "w") truncates
LoopEnd ==
    /\ pc = "loop"
    /\ local.year > local.end_year
    /\ IF local.updated
       THEN pc' = "dump" /\ disk' = Torn
       ELSE pc' = "return" /\ UNCHANGED disk
    /\ UNCHANGED <<now, exit, local, settled>>

\* line 40: json.dump and the close of the file
SaveDump ==
    /\ pc = "dump"
    /\ disk' = JsonFile(local.data)
    /\ pc' = "return"
    /\ settled' = settled \cup local.emptied
    /\ UNCHANGED <<now, exit, local>>

\* line 176: data["records"] is returned
Return ==
    /\ pc = "return"
    /\ pc' = "idle"
    /\ exit' = "returned"
    /\ local' = NoLocal
    /\ UNCHANGED <<now, disk, settled>>

\* the process is killed inside the call; what is in memory is lost
Interrupt ==
    /\ pc # "idle"
    /\ pc' = "idle"
    /\ exit' = "killed"
    /\ local' = NoLocal
    /\ UNCHANGED <<now, disk, settled>>

\* the calendar year changes between two calls
NewYear ==
    /\ pc = "idle"
    /\ now + 1 \in Years
    /\ now' = now + 1
    /\ UNCHANGED <<disk, pc, exit, local, settled>>

(***************************************************************************)
(* Spec: any sequence of calls, from an absent cache file                  *)
(***************************************************************************)
NotCalled == [idlist |-> <<>>, requests |-> 0, raised |-> FALSE]

\* the variables of a specification that is not the one running
IdleRetrieval ==
    /\ now = FirstYear
    /\ disk = Absent
    /\ pc = "idle"
    /\ exit = "none"
    /\ local = NoLocal
    /\ settled = {}
IdleIdem ==
    /\ upstream = [y \in Years |-> <<>>]
    /\ runsDone = 0
    /\ diskAfter1 = Absent
    /\ idemArgs = <<FirstYear, FirstYear>>
IdleSearch ==
    /\ sy_resps = <<>>
    /\ sy_out = NotCalled
FetchNotCalled == [records |-> <<>>, batches |-> <<>>, raised |-> FALSE, called |-> FALSE]
IdleFetch ==
    /\ f_pmids = <<>>
    /\ f_resps = <<>>
    /\ f_out = FetchNotCalled
IdlePairs ==
    /\ p_records = <<>>
    /\ p_docs = {}
    /\ p_denots = <<>>
    /\ p_ann = <<>>
    /\ p_keys = <<>>
    /\ p_results = <<>>
    /\ p_pc = "idle"
IdleGraph ==
    /\ g_pairs = <<>>
    /\ G = [nodes |-> <<>>, type |-> <<>>, adj |-> <<>>, attrs |-> <<>>]
    /\ g_pc = "idle"
    /\ report = [raised |-> FALSE, rows |-> <<>>]

Init ==
    /\ now = FirstYear
    /\ disk = Absent
    /\ pc = "idle"
    /\ exit = "none"
    /\ local = NoLocal
    /\ settled = {}
    /\ IdleIdem
    /\ IdleSearch
    /\ IdleFetch
    /\ IdlePairs
    /\ IdleGraph

others == <<ivars, svars, pvars, gvars, fvars>>

Call ==
    /\ \E s \in Years, e \in Years : StartRun(s, e)
    /\ UNCHANGED others
Skip == SkipYear /\ UNCHANGED others
Search ==
    /\ \E resps \in SearchStreams : SearchYear(resps)
    /\ UNCHANGED others
Fetch ==
    /\ pc = "fetch"
    /\ \E resps \in FetchStreams(_chunked(local.new_pmids, local.pos, BATCH_SIZE)) :
           FetchBatch(resps)
    /\ UNCHANGED others
EndLoop == LoopEnd /\ UNCHANGED others
Dump == SaveDump /\ UNCHANGED others
Returned == Return /\ UNCHANGED others
Killed == Interrupt /\ UNCHANGED others
Tick == NewYear /\ UNCHANGED others

Next ==
    \/ Call
    \/ Skip
    \/ Search
    \/ Fetch
    \/ EndLoop
    \/ Dump
    \/ Returned
    \/ Killed
    \/ Tick

Spec == Init /\ [][Next]_vars

(***************************************************************************)
(* SpecIdem: retrieve_full_data is called again and again with the same    *)
(* arguments in one calendar year; the search service lists upstream[y]    *)
(* for year y every time it is asked (after at most max_retries - 1        *)
(* rate-limited answers), and every batch is fetched in the end.           *)
(***************************************************************************)
MaxRuns == 2

InitIdem ==
    /\ now \in Years
    /\ disk = Absent
    /\ pc = "idle"
    /\ exit = "none"
    /\ local = NoLocal
    /\ settled = {}
    /\ upstream \in [Years -> IdLists]
    /\ runsDone = 0
    /\ diskAfter1 = Absent
    /\ idemArgs \in Years \X Years
    /\ IdleSearch
    /\ IdleFetch
    /\ IdlePairs
    /\ IdleGraph

SteadySearchStreams(year) ==
    {Stream(k, Resp(200, upstream[year])) : k \in 0..(max_retries - 1)}
SteadyFetchStreams(chunk) ==
    {Stream(k, r) : k \in 0..(max_retries - 1),
                    r \in {Resp(200, Articles(chunk)), Resp(200, Articles(Distinct(chunk)))}}

IdemCall ==
    /\ runsDone < MaxRuns
    /\ StartRun(idemArgs[1], idemArgs[2])
    /\ UNCHANGED <<ivars, svars, pvars, gvars, fvars>>
IdemSkip == SkipYear /\ UNCHANGED <<ivars, svars, pvars, gvars, fvars>>
IdemSearch ==
    /\ pc = "loop"
    /\ local.year <= local.end_year
    /\ \E resps \in SteadySearchStreams(local.year) : SearchYear(resps)
    /\ UNCHANGED <<ivars, svars, pvars, gvars, fvars>>
IdemFetch ==
    /\ pc = "fetch"
    /\ \E resps \in SteadyFetchStreams(_chunked(local.new_pmids, local.pos, BATCH_SIZE)) :
           FetchBatch(resps)
    /\ UNCHANGED <<ivars, svars, pvars, gvars, fvars>>
IdemEndLoop == LoopEnd /\ UNCHANGED <<ivars, svars, pvars, gvars, fvars>>
IdemDump == SaveDump /\ UNCHANGED <<ivars, svars, pvars, gvars, fvars>>
IdemReturn ==
    /\ Return
    /\ runsDone' = runsDone + 1
    /\ diskAfter1' = IF runsDone = 0 THEN disk ELSE diskAfter1
    /\ UNCHANGED <<upstream, idemArgs, svars, pvars, gvars, fvars>>

NextIdem ==
    \/ IdemCall
    \/ IdemSkip
    \/ IdemSearch
    \/ IdemFetch
    \/ IdemEndLoop
    \/ IdemDump
    \/ IdemReturn

SpecIdem == InitIdem /\ [][NextIdem]_vars

(***************************************************************************)
(* SpecSearch: _search_year against every stream of responses              *)
(***************************************************************************)
R404 == Resp(404, <<>>)
SearchBodies == SeqsUpTo(PMIDS, 1)
AnyResponse == {R429, R404, R500, Malformed} \cup {Resp(200, l) : l \in SearchBodies}
AllStreams == [1..StreamLen -> AnyResponse]

InitSearch ==
    /\ IdleRetrieval
    /\ IdleIdem
    /\ IdleFetch
    /\ IdlePairs
    /\ IdleGraph
    /\ sy_resps \in AllStreams
    /\ sy_out = NotCalled

SearchCall ==
    /\ sy_out = NotCalled
    /\ sy_out' = _search_year(sy_resps)
    /\ UNCHANGED <<rvars, ivars, pvars, gvars, fvars, sy_resps>>

NextSearch == SearchCall

SpecSearch == InitSearch /\ [][NextSearch]_vars

(***************************************************************************)
(* SpecFetch: _fetch_pmids on every identifier list, every batch answered  *)
(* by k rate-limited responses and then by any response                    *)
(***************************************************************************)
\* the most batches an identifier list can need
FetchBatchesMax == (MaxIds + BATCH_SIZE - 1) \div BATCH_SIZE

\* the service lists any articles in a 200 response
FetchBodies == {Articles(ids) : ids \in SeqsUpTo(PMIDS, 1)}
AnyFetchAnswer == {R404, R500, Malformed} \cup {Resp(200, body) : body \in FetchBodies}
AnyFetchStreams == {Stream(k, r) : k \in 0..max_retries, r \in AnyFetchAnswer}

InitFetch ==
    /\ IdleRetrieval
    /\ IdleIdem
    /\ IdleSearch
    /\ IdlePairs
    /\ IdleGraph
    /\ f_pmids \in IdLists
    /\ f_resps \in [1..FetchBatchesMax -> AnyFetchStreams]
    /\ f_out = FetchNotCalled

FetchCall ==
    /\ ~f_out.called
    /\ LET out == _fetch_pmids(f_pmids, BATCH_SIZE, f_resps)
       IN f_out' = [records |-> out.records, batches |-> out.batches,
                    raised |-> out.raised, called |-> TRUE]
    /\ UNCHANGED <<rvars, ivars, svars, pvars, gvars, f_pmids, f_resps>>

NextFetch == FetchCall

SpecFetch == InitFetch /\ [][NextFetch]_vars

(***************************************************************************)
(* Strings are sequences of one-character strings                          *)
(***************************************************************************)
Digits == {"0", "1", "2", "3", "4", "5", "6", "7", "8", "9"}
Letters == {"A", "B", "C", "D", "E", "F", "G", "H", "I", "J", "K", "L", "M",
            "N", "O", "P", "Q", "R", "S", "T", "U", "V", "W", "X", "Y", "Z"}

\* str.isdigit, str.isalnum: false on the empty string
isdigit(str) == str # <<>> /\ \A i \in DOMAIN str : str[i] \in Digits
isalnum(str) == str # <<>> /\ \A i \in DOMAIN str : str[i] \in Digits \cup Letters
startswith(str, prefix) ==
    Len(str) >= Len(prefix) /\ SubSeq(str, 1, Len(prefix)) = prefix
\* str[n:]
From(str, n) == SubSeq(str, n + 1, Len(str))

\* the index of the first sep in str, 0 when there is none
RECURSIVE Find(_, _, _)
Find(str, sep, i) ==
    IF i > Len(str) THEN 0
    ELSE IF str[i] = sep THEN i ELSE Find(str, sep, i + 1)

\* str.split(sep): every part, empty ones included
RECURSIVE split(_, _)
split(str, sep) ==
    LET i == Find(str, sep, 1)
    IN IF i = 0 THEN <<str>>
       ELSE <<SubSeq(str, 1, i - 1)>> \o split(From(str, i), sep)

\* str.strip()
RECURSIVE strip(_)
strip(str) ==
    IF str = <<>> THEN str
    ELSE IF str[1] = " " THEN strip(Tail(str))
    ELSE IF str[Len(str)] = " " THEN strip(SubSeq(str, 1, Len(str) - 1))
    ELSE str

Strip(parts) == [i \in DOMAIN parts |-> strip(parts[i])]

\* _split_ids: the first of ';' and ',' that occurs decides the split
_split_ids(identifier) ==
    IF ";" \in Range(identifier)
    THEN SelectSeq(Strip(split(identifier, ";")), LAMBDA part : part # <<>>)
    ELSE IF "," \in Range(identifier)
    THEN SelectSeq(Strip(split(identifier, ",")), LAMBDA part : part # <<>>)
    ELSE <<strip(identifier)>>

(***************************************************************************)
(* annotate_pmids                                                          *)
(***************************************************************************)
\* the passage text of a document and the location of a denotation in it
PassageText == <<"s", "c", "d">>
Location == [offset |-> 0, length |-> 3]

Denotation(pmid, type, identifier) ==
    [pmid |-> pmid, type |-> type, identifier |-> identifier, loc |-> Location]

\* lines 61-78: a tag without identifier is passed over; otherwise one entry
\* (offset, end, snippet, ident) per identifier of the tag
Entries(denot) ==
    LET offset == denot.loc.offset
        length == denot.loc.length
        snippet == SubSeq(PassageText, offset + 1, offset + length)
        raw_id == strip(denot.identifier)
        ids == _split_ids(raw_id)
    IN IF raw_id = <<>> THEN <<>>
       ELSE [i \in DOMAIN ids |-> <<offset, offset + length, snippet, ids[i]>>]

RECURSIVE Flatten(_)
Flatten(seqs) == IF seqs = <<>> THEN <<>> ELSE Head(seqs) \o Flatten(Tail(seqs))

\* lines 47-80 for one document: its denotations in order
AnnotateDoc(pmid, denots) ==
    LET of(type) == SelectSeq(denots, LAMBDA t : t.pmid = pmid /\ t.type = type)
        entries(type) == Flatten([i \in DOMAIN of(type) |-> Entries(of(type)[i])])
    IN [genes |-> entries("gene"), diseases |-> entries("disease")]

\* lines 26-84. The service answers for any subset of the requested pmids (a
\* non-JSON batch leaves its pmids without a document), in request order.
annotate_pmids(pmids, docs, denots) ==
    [pmid \in Range(pmids) \cap docs |-> AnnotateDoc(pmid, denots)]

(***************************************************************************)
(* extract_gene_disease_pairs                                              *)
(***************************************************************************)
\* a disease filter that forgets to look at the core
DiseaseOkAnyCore(did) ==
    \/ ":" \in Range(did)
    \/ (startswith(did, <<"D">>) /\ isdigit(From(did, 1)))

\* line 107
GeneOk(gid) == isdigit(gid)

\* lines 111-116
DiseaseOk(did) ==
    IF ":" \in Range(did)
    THEN isalnum(From(did, Find(did, ":", 1)))
    ELSE startswith(did, <<"D">>) /\ isdigit(From(did, 1))

\* line 101: a later record of a pmid overrides an earlier one; line 129:
\* year_map.get(pmid, "")
YearOf(records, pmid) ==
    LET at == {i \in DOMAIN records : records[i].pmid = pmid}
    IN IF at = {} THEN <<>>
       ELSE records[CHOOSE i \in at : \A j \in at : j <= i].year

\* the orders in which Python may iterate a set
Orderings(S) == {order \in [1..Cardinality(S) -> S] : Range(order) = S}

\* lines 127-129: the nested loops over genes and diseases
DocPairs(pmid, genes, diseases, year) ==
    [k \in 1..(Len(genes) * Len(diseases)) |->
        <<pmid,
          genes[((k - 1) \div Len(diseases)) + 1],
          diseases[((k - 1) % Len(diseases)) + 1],
          year>>]

\* lines 100-102
Annotate ==
    /\ p_pc = "start"
    /\ p_ann' = annotate_pmids(Pmids(p_records), p_docs, p_denots)
    /\ p_keys' = SelectSeq(Pmids(p_records), LAMBDA pmid : pmid \in p_docs)
    /\ p_pc' = "extract"
    /\ UNCHANGED <<p_records, p_docs, p_denots, p_results>>

\* lines 106-129 for one document of ann.items()
ExtractDoc ==
    /\ p_pc = "extract"
    /\ p_keys # <<>>
    /\ LET pmid == Head(p_keys)
           tags == p_ann[pmid]
           genes == {t[4] : t \in {e \in Range(tags.genes) : GeneOk(e[4])}}
           diseases == {t[4] : t \in {e \in Range(tags.diseases) : DiseaseOk(e[4])}}
       IN \E gs \in Orderings(genes), ds \in Orderings(diseases) :
             p_results' = p_results \o DocPairs(pmid, gs, ds, YearOf(p_records, pmid))
    /\ p_keys' = Tail(p_keys)
    /\ UNCHANGED <<p_records, p_docs, p_denots, p_ann, p_pc>>

\* lines 131-132
ExtractReturn ==
    /\ p_pc = "extract"
    /\ p_keys = <<>>
    /\ p_pc' = "done"
    /\ UNCHANGED <<p_records, p_docs, p_denots, p_ann, p_keys, p_results>>

(***************************************************************************)
(* SpecPairs: one call of extract_gene_disease_pairs with records given    *)
(***************************************************************************)
Y2000 == <<"2", "0", "0", "0">>
Y2001 == <<"2", "0", "0", "1">>
NoYear == <<>>

GeneRaw == {<<"1">>, <<"A", "B", "C">>, <<"1", ";", "2">>}
DiseaseRaw ==
    {<<"D", "0", "0", "0", "0", "0", "1">>,
     <<"M", "E", "S", "H", ":", "D", "0", "0", "0", "1", "2", "3">>,
     <<"X", "Y", "Z">>,
     <<"M", "E", "S", "H", ":", "C", "1", ":", "2">>}

MaxDenots == 3
Denotations ==
    {Denotation(pmid, "gene", raw) : pmid \in PMIDS, raw \in GeneRaw}
    \cup {Denotation(pmid, "disease", raw) : pmid \in PMIDS, raw \in DiseaseRaw}

RecordLists ==
    {<<[pmid |-> "11", year |-> Y2000], [pmid |-> "12", year |-> NoYear]>>,
     <<[pmid |-> "12", year |-> Y2001], [pmid |-> "11", year |-> Y2000]>>}

InitPairs ==
    /\ IdleRetrieval
    /\ IdleIdem
    /\ IdleSearch
    /\ IdleFetch
    /\ IdleGraph
    /\ p_records \in RecordLists
    /\ p_docs \in SUBSET PMIDS
    /\ p_denots \in SeqsUpTo(Denotations, MaxDenots)
    /\ \A i \in DOMAIN p_denots : p_denots[i].pmid \in p_docs
    /\ p_ann = <<>>
    /\ p_keys = <<>>
    /\ p_results = <<>>
    /\ p_pc = "start"

PairsAnnotate == Annotate /\ UNCHANGED <<rvars, ivars, svars, gvars, fvars>>
PairsDoc == ExtractDoc /\ UNCHANGED <<rvars, ivars, svars, gvars, fvars>>
PairsReturn == ExtractReturn /\ UNCHANGED <<rvars, ivars, svars, gvars, fvars>>

NextPairs ==
    \/ PairsAnnotate
    \/ PairsDoc
    \/ PairsReturn

SpecPairs == InitPairs /\ [][NextPairs]_vars

(***************************************************************************)
(* SpecTags: annotate_pmids on one document whose tags lie at different    *)
(* places of the passage and pack identifiers in every way                 *)
(***************************************************************************)
PackedRaw ==
    {<<"1">>,
     <<"1", ";", "2">>,
     <<"1", ",", "2">>,
     <<"1", ";", "2", ",", "3">>,
     <<" ", "1", " ", ";", " ", "2">>,
     <<"1", ";", ";", "2">>,
     <<";">>,
     <<" ">>}
Locations == {[offset |-> 0, length |-> 1], [offset |-> 1, length |-> 2],
              [offset |-> 0, length |-> 3]}
Tags == [pmid : {"11"}, type : {"gene", "disease"}, identifier : PackedRaw,
         loc : Locations]

InitTags ==
    /\ IdleRetrieval
    /\ IdleIdem
    /\ IdleSearch
    /\ IdleFetch
    /\ IdleGraph
    /\ p_records = <<[pmid |-> "11", year |-> Y2000]>>
    /\ p_docs = {"11"}
    /\ p_denots \in SeqsUpTo(Tags, MaxDenots)
    /\ \A i, j \in DOMAIN p_denots : i # j => p_denots[i].loc # p_denots[j].loc
    /\ p_ann = <<>>
    /\ p_keys = <<>>
    /\ p_results = <<>>
    /\ p_pc = "start"

NextTags == PairsAnnotate

SpecTags == InitTags /\ [][NextTags]_vars

(***************************************************************************)
(* build_temporal_graph: the networkx Graph as a node list in insertion    *)
(* order, a type per node, an adjacency list per node in insertion order   *)
(* and the attributes of every edge, keyed by its two endpoints            *)
(***************************************************************************)
EmptyGraph == [nodes |-> <<>>, type |-> <<>>, adj |-> <<>>, attrs |-> <<>>]

has_node(g, n) == n \in Range(g.nodes)
add_node(g, n, type) ==
    [g EXCEPT !.nodes = Append(@, n),
              !.type = @ @@ (n :> type),
              !.adj = @ @@ (n :> <<>>)]
has_edge(g, u, v) == {u, v} \in DOMAIN g.attrs
add_edge(g, u, v, pmids, years) ==
    [g EXCEPT !.adj = [@ EXCEPT ![u] = Append(@, v), ![v] = Append(@, u)],
              !.attrs = @ @@ ({u, v} :> [pmids |-> pmids, years |-> years])]

is_valid_gene_id(gene_id) == isdigit(gene_id)

\* a disease test that takes any prefix before a colon
is_valid_disease_id_any_prefix(disease_id) ==
    \/ ":" \in Range(disease_id)
    \/ (startswith(disease_id, <<"D">>) /\ isdigit(From(disease_id, 1)))

\* lines 15-19
is_valid_disease_id(disease_id) ==
    \/ startswith(disease_id, <<"M", "E", "S", "H", ":">>)
    \/ startswith(disease_id, <<"O", "M", "I", "M", ":">>)
    \/ (startswith(disease_id, <<"D">>) /\ isdigit(From(disease_id, 1)))

\* an append that leaves out a year that is the empty string
AppendEvidenceKnownYear(evidence, pmid, year) ==
    [pmids |-> Append(evidence.pmids, pmid),
     years |-> IF year = <<>> THEN evidence.years ELSE Append(evidence.years, year)]

\* lines 48-49
AppendEvidence(evidence, pmid, year) ==
    [pmids |-> Append(evidence.pmids, pmid), years |-> Append(evidence.years, year)]

\* lines 37-51 for one pair (pmid, gene, disease, year)
FoldPair(g, pair) ==
    LET pmid == pair[1]
        gene == pair[2]
        disease == pair[3]
        year == pair[4]
        g1 == IF has_node(g, gene) THEN g ELSE add_node(g, gene, "gene")
        g2 == IF has_node(g1, disease) THEN g1 ELSE add_node(g1, disease, "disease")
    IN IF ~is_valid_gene_id(gene) \/ ~is_valid_disease_id(disease) THEN g
       ELSE IF has_edge(g2, gene, disease)
       THEN [g2 EXCEPT !.attrs[{gene, disease}] = AppendEvidence(@, pmid, year)]
       ELSE add_edge(g2, gene, disease, <<pmid>>, <<year>>)

(***************************************************************************)
(* analyze_temporal_edges                                                  *)
(***************************************************************************)
DigitChars == <<"0", "1", "2", "3", "4", "5", "6", "7", "8", "9">>
DigitValue(c) == (CHOOSE i \in DOMAIN DigitChars : DigitChars[i] = c) - 1

\* int(y) of a string of digits
RECURSIVE int(_)
int(str) ==
    IF str = <<>> THEN 0
    ELSE 10 * int(SubSeq(str, 1, Len(str) - 1)) + DigitValue(str[Len(str)])

SetMin(S) == CHOOSE x \in S : \A y \in S : x <= y
SetMax(S) == CHOOSE x \in S : \A y \in S : y <= x

\* G.edges(data=True): every node in insertion order, its neighbours in
\* insertion order, an edge once, from the endpoint that comes first
RECURSIVE EdgesFrom(_, _, _)
EdgesFrom(g, i, seen) ==
    IF i > Len(g.nodes) THEN <<>>
    ELSE LET n == g.nodes[i]
             nbrs == SelectSeq(g.adj[n], LAMBDA nbr : nbr \notin seen)
         IN [k \in DOMAIN nbrs |-> <<n, nbrs[k]>>] \o EdgesFrom(g, i + 1, seen \cup {n})
edges(g) == EdgesFrom(g, 1, {})

\* line 40
NumericYears(years) ==
    LET numeric == SelectSeq(years, isdigit)
    IN [i \in DOMAIN numeric |-> int(numeric[i])]

\* a first mention that is the first year met
FirstMet(keys) == keys[1]

\* line 45: min(cnt), the smallest key
first_mention(keys) == SetMin(Range(keys))

\* line 46: max(cnt.items(), key=count) is the first item, in the Counter's
\* insertion order, whose count is the largest
PeakIndex(keys, years) ==
    LET most == SetMax({Count(years, y) : y \in Range(keys)})
    IN CHOOSE i \in DOMAIN keys :
          /\ Count(years, keys[i]) = most
          /\ \A j \in 1..(i - 1) : Count(years, keys[j]) < most

RECURSIVE SumOver(_, _)
SumOver(keys, years) ==
    IF keys = <<>> THEN 0 ELSE Count(years, Head(keys)) + SumOver(Tail(keys), years)

\* line 59: the items sorted by year
RECURSIVE SortedItems(_, _)
SortedItems(keyset, years) ==
    IF keyset = {} THEN <<>>
    ELSE LET y == SetMin(keyset)
         IN <<<<y, Count(years, y)>>>> \o SortedItems(keyset \ {y}, years)

\* lines 44-60
Row(gene, disease, years) ==
    LET keys == Distinct(years)
        first == first_mention(keys)
        peak == keys[PeakIndex(keys, years)]
        peak_count == Count(years, peak)
        total == SumOver(keys, years)
    IN [gene |-> gene, disease |-> disease, first_mention |-> first,
        peak_year |-> peak, time_to_peak |-> peak - first,
        total_mentions |-> total, peak_count |-> peak_count,
        burstiness |-> [num |-> peak_count, den |-> total],
        annual_counts |-> SortedItems(Range(keys), years)]

\* lines 27-60 for one edge: the rows it adds to records (none or one)
EdgeRows(g, edge) ==
    LET u == edge[1]
        v == edge[2]
        tu == g.type[u]
        tv == g.type[v]
        years == NumericYears(g.attrs[{u, v}].years)
    IN IF tu = "gene" /\ tv = "disease"
       THEN (IF years = <<>> THEN <<>> ELSE <<Row(u, v, years)>>)
       ELSE IF tv = "gene" /\ tu = "disease"
       THEN (IF years = <<>> THEN <<>> ELSE <<Row(v, u, years)>>)
       ELSE <<>>

\* a report left in the order of the edges
KeepOrder(rows) == rows

\* line 64: rows by total_mentions, largest first; rows of equal
\* total_mentions keep their order (the sort of a short column is an
\* insertion sort)
RECURSIVE sort_values(_)
sort_values(rows) ==
    IF rows = <<>> THEN <<>>
    ELSE LET sorted == sort_values(SubSeq(rows, 1, Len(rows) - 1))
             last == rows[Len(rows)]
             ahead == Cardinality({i \in DOMAIN sorted :
                          sorted[i].total_mentions >= last.total_mentions})
         IN SubSeq(sorted, 1, ahead) \o <<last>> \o SubSeq(sorted, ahead + 1, Len(sorted))

\* lines 24-64; a DataFrame of no records has no column total_mentions and
\* sort_values raises KeyError
analyze_temporal_edges(g) ==
    LET es == edges(g)
        records == Flatten([i \in DOMAIN es |-> EdgeRows(g, es[i])])
    IN IF records = <<>> THEN [raised |-> TRUE, rows |-> <<>>]
       ELSE [raised |-> FALSE, rows |-> sort_values(records)]

(***************************************************************************)
(* SpecGraph: pairs arrive one by one, then the graph is analyzed          *)
(***************************************************************************)
MaxPairs == 3

\* the documents of the pairs: pmid and the year of its record
GraphDocs == {<<"21", Y2000>>, <<"22", Y2001>>, <<"23", Y2000>>, <<"24", NoYear>>}
GraphGenes == {<<"1">>, <<"2">>}
D000001 == <<"D", "0", "0", "0", "0", "0", "1">>
MESH_D000123 == <<"M", "E", "S", "H", ":", "D", "0", "0", "0", "1", "2", "3">>
DOID_1 == <<"D", "O", "I", "D", ":", "1">>
GraphDiseases == {D000001, MESH_D000123, DOID_1}

\* what extract_gene_disease_pairs can emit: genes of digits, diseases that
\* pass its filter (DOID:1 does, and is no valid disease id of the graph)
GraphPairs ==
    {<<doc[1], gene, disease, doc[2]>> :
        doc \in GraphDocs, gene \in GraphGenes, disease \in GraphDiseases}

InitGraph ==
    /\ IdleRetrieval
    /\ IdleIdem
    /\ IdleSearch
    /\ IdleFetch
    /\ IdlePairs
    /\ g_pairs = <<>>
    /\ G = EmptyGraph
    /\ g_pc = "build"
    /\ report = [raised |-> FALSE, rows |-> <<>>]

\* lines 36-51: the next pair of the loop
AddPair ==
    /\ g_pc = "build"
    /\ Len(g_pairs) < MaxPairs
    /\ \E pair \in GraphPairs :
          /\ pair \notin Range(g_pairs)
          /\ g_pairs' = Append(g_pairs, pair)
          /\ G' = FoldPair(G, pair)
    /\ UNCHANGED <<g_pc, report, rvars, ivars, svars, pvars, fvars>>

\* pipeline.py lines 45-46
Analyze ==
    /\ g_pc = "build"
    /\ report' = analyze_temporal_edges(G)
    /\ g_pc' = "analyzed"
    /\ UNCHANGED <<g_pairs, G, rvars, ivars, svars, pvars, fvars>>

NextGraph ==
    \/ AddPair
    \/ Analyze

SpecGraph == InitGraph /\ [][NextGraph]_vars

(***************************************************************************)
(* SpecReport: analyze_temporal_edges on a graph as load_graph may hand it *)
(* over: nodes of any type or none, edges between any two of them, years   *)
(* of any content                                                          *)
(***************************************************************************)
MaxEdges == 2

LoadedNodes == <<<<"1">>, <<"2">>, D000001>>
\* G.nodes[u].get("type"): "none" stands for a node without the attribute
NodeTypes == {"gene", "disease", "none"}
NotAYear == <<"n", "a">>
LoadedYearLists ==
    {<<>>, <<NoYear>>, <<NotAYear, Y2000>>, <<Y2001>>, <<Y2001, Y2000>>,
     <<Y2000, Y2000, Y2001>>}
NodePairs == {<<LoadedNodes[i], LoadedNodes[j]>> : i, j \in DOMAIN LoadedNodes} \
             {<<LoadedNodes[i], LoadedNodes[i]>> : i \in DOMAIN LoadedNodes}
LoadedEdges == [ends : NodePairs, years : LoadedYearLists]
EdgeLists ==
    {es \in SeqsUpTo(LoadedEdges, MaxEdges) :
        \A i, j \in DOMAIN es : i # j => Range(es[i].ends) # Range(es[j].ends)}

RECURSIVE WithNodes(_, _, _)
WithNodes(g, names, types) ==
    IF names = <<>> THEN g
    ELSE WithNodes(add_node(g, Head(names), types[Head(names)]), Tail(names), types)

RECURSIVE WithEdges(_, _)
WithEdges(g, es) ==
    IF es = <<>> THEN g
    ELSE WithEdges(add_edge(g, Head(es).ends[1], Head(es).ends[2], <<>>, Head(es).years),
                   Tail(es))

LoadedGraph(types, es) == WithEdges(WithNodes(EmptyGraph, LoadedNodes, types), es)

InitReport ==
    /\ IdleRetrieval
    /\ IdleIdem
    /\ IdleSearch
    /\ IdleFetch
    /\ IdlePairs
    /\ g_pairs = <<>>
    /\ G \in {LoadedGraph(types, es) :
                 types \in [Range(LoadedNodes) -> NodeTypes], es \in EdgeLists}
    /\ g_pc = "build"
    /\ report = [raised |-> FALSE, rows |-> <<>>]

NextReport == Analyze

SpecReport == InitReport /\ [][NextReport]_vars

(***************************************************************************)
(* Claims on retrieval                                                     *)
(***************************************************************************)
\* C1: when retrieve_full_data has completed once and is run again with the
\* same term and year range while the search service lists the same
\* identifiers for every year, the second run leaves the cache file exactly
\* as the first run left it, and the record list it returns holds no pmid
\* twice.
C1_Idempotent ==
    (pc = "return" /\ runsDone = 1) =>
        /\ disk = diskAfter1
        /\ NoDup(Pmids(local.data.records))

\* the first half of C1 alone
C1_CacheUnchanged == (pc = "return" /\ runsDone = 1) => disk = diskAfter1

\* C2: the completed_years a run persists never contain the year that is the
\* current calendar year during that run.
C2_CurrentYearNotPersisted ==
    (pc = "return" /\ local.updated) => now \notin Range(disk.completed_years)

\* C3: no two records of the cache file have the same pmid.
C3_UniquePmids == disk.kind = "json" => NoDup(Pmids(disk.records))

\* C4: a run that reaches its end has issued no search for a year that was in
\* the loaded completed_years and is not the current year, and exactly one
\* search for every other year of start_year..end_year, the current year
\* included; it has searched no year outside the range.
C4_SearchesPerYear ==
    pc = "return" =>
        /\ \A y \in local.start_year .. local.end_year :
              Count(local.searched, y) =
                  IF y \in Range(_load_data(local.disk0).completed_years) /\ y # now
                  THEN 0 ELSE 1
        /\ Range(local.searched) \subseteq local.start_year .. local.end_year

\* a run has skipped a completed year and searched the current year, which an
\* earlier run had searched and completed while it was still a future year
C4_Witness ==
    /\ pc = "return"
    /\ now \in local.done
    /\ now \in Range(local.searched)
    /\ \E y \in local.done : y # now /\ y \in local.start_year .. local.end_year
                             /\ y \notin Range(local.searched)

\* C5: when a run is interrupted, the cache file holds either the complete
\* state that was on disk when the run began or the complete state the run
\* saved.
C5_InterruptKeepsFile ==
    [][(pc # "idle" /\ pc' = "idle" /\ exit' = "killed") =>
          \/ disk' = local.disk0
          \/ (pc = "return" /\ disk' = JsonFile(local.data))]_vars

\* C6: _search_year issues at most max_retries requests; it stops at the
\* first response that is not a 429; when the first max_retries responses
\* are all 429 it returns the empty list and does not raise; an HTTP error
\* response gives the empty list without a further request; a well-formed
\* 200 response gives its identifier list.
FirstAnswered(resps) ==
    {i \in 1..max_retries :
        resps[i].status # 429 /\ \A j \in 1..(i - 1) : resps[j].status = 429}

C6_SearchTerminates ==
    sy_out # NotCalled =>
        /\ sy_out.requests <= max_retries
        /\ \A i \in FirstAnswered(sy_resps) :
              /\ sy_out.requests = i
              /\ IsHttpError(sy_resps[i]) => (sy_out.idlist = <<>> /\ ~sy_out.raised)
              /\ (sy_resps[i].status = 200 /\ sy_resps[i].parses) =>
                     (sy_out.idlist = sy_resps[i].body /\ ~sy_out.raised)
        /\ FirstAnswered(sy_resps) = {} =>
              (sy_out.requests = max_retries /\ sy_out.idlist = <<>> /\ ~sy_out.raised)

\* every attempt was rate-limited although the service would have answered
\* a further request
C6_Witness ==
    /\ sy_out # NotCalled
    /\ \A i \in 1..max_retries : sy_resps[i].status = 429
    /\ sy_resps[max_retries + 1].status = 200
    /\ sy_resps[max_retries + 1].body # <<>>
    /\ sy_out.requests = max_retries
    /\ sy_out.idlist = <<>>

(***************************************************************************)
(* Claims on pair extraction                                               *)
(***************************************************************************)
\* the claim's own reading of the two filters
DigitOnly(id) == Len(id) > 0 /\ \A i \in 1..Len(id) : id[i] \in Digits
PrefixedAlnum(id) ==
    \E i \in 1..Len(id) :
        /\ id[i] = ":"
        /\ \A j \in 1..(i - 1) : id[j] # ":"
        /\ i < Len(id)
        /\ \A j \in (i + 1)..Len(id) : id[j] \in Digits \cup Letters
DThenDigits(id) ==
    Len(id) > 1 /\ id[1] = "D" /\ \A i \in 2..Len(id) : id[i] \in Digits

GeneIds(pmid) == {e[4] : e \in Range(p_ann[pmid].genes)}
DiseaseIds(pmid) == {e[4] : e \in Range(p_ann[pmid].diseases)}
Emitted(pmid) == SelectSeq(p_results, LAMBDA t : t[1] = pmid)

\* C7: for every annotated document the emitted tuples are exactly
\* (pmid, g, d, year), g a digit-only gene identifier of the document, d a
\* disease identifier of the form prefix:core with alphanumeric core or D
\* followed by digits, each tuple once, year the year of the document's
\* record; nothing is emitted for any other document.
C7_CrossProduct ==
    p_pc = "done" =>
        /\ \A pmid \in DOMAIN p_ann :
              /\ Range(Emitted(pmid)) =
                    {<<pmid, g, d, YearOf(p_records, pmid)>> :
                        g \in {x \in GeneIds(pmid) : DigitOnly(x)},
                        d \in {x \in DiseaseIds(pmid) :
                                  PrefixedAlnum(x) \/ DThenDigits(x)}}
              /\ NoDup(Emitted(pmid))
        /\ \A i \in DOMAIN p_results : p_results[i][1] \in DOMAIN p_ann

\* a document with genes 1, 2 and ABC and the one disease D000001 has given
\* exactly the two pairs of 1 and 2 with D000001
C7_Witness ==
    /\ p_pc = "done"
    /\ \E pmid \in DOMAIN p_ann :
          /\ GeneIds(pmid) = {<<"1">>, <<"2">>, <<"A", "B", "C">>}
          /\ DiseaseIds(pmid) = {<<"D", "0", "0", "0", "0", "0", "1">>}
          /\ Len(Emitted(pmid)) = 2
          /\ \A i \in 1..2 : Emitted(pmid)[i][4] = Y2000

(***************************************************************************)
(* Claims on the graph and its analysis                                    *)
(***************************************************************************)
\* the pairs folded so far that are valid and join gene and disease
Supporting(gene, disease) ==
    SelectSeq(g_pairs, LAMBDA pair :
        /\ pair[2] = gene
        /\ pair[3] = disease
        /\ is_valid_gene_id(pair[2])
        /\ is_valid_disease_id(pair[3]))

\* C8: every edge has as many pmids as years, and entry i of both comes from
\* the i-th valid pair that arrived for the edge's gene and disease.
C8_ParallelEvidence ==
    \A gene \in GraphGenes, disease \in GraphDiseases :
        has_edge(G, gene, disease) =>
            LET evidence == G.attrs[{gene, disease}]
                from == Supporting(gene, disease)
            IN /\ Len(evidence.pmids) = Len(evidence.years)
               /\ evidence.pmids = [i \in DOMAIN from |-> from[i][1]]
               /\ evidence.years = [i \in DOMAIN from |-> from[i][4]]

\* an edge has evidence of three pairs, one of them with an empty year
C8_Witness ==
    \E gene \in GraphGenes, disease \in GraphDiseases :
        /\ has_edge(G, gene, disease)
        /\ Len(G.attrs[{gene, disease}].pmids) = 3
        /\ NoYear \in Range(G.attrs[{gene, disease}].years)
        /\ G.attrs[{gene, disease}].years[1] # NoYear

\* the numeric years of an edge, as the claim reads them
EdgeYears(gene, disease) ==
    LET years == G.attrs[{gene, disease}].years
        numeric == SelectSeq(years, DigitOnly)
    IN [i \in DOMAIN numeric |-> int(numeric[i])]
Qualifies(gene, disease) ==
    has_edge(G, gene, disease) /\ EdgeYears(gene, disease) # <<>>
MostMentions(years) == SetMax({Count(years, y) : y \in Range(years)})

RECURSIVE SumCounts(_)
SumCounts(items) == IF items = <<>> THEN 0 ELSE Head(items)[2] + SumCounts(Tail(items))

\* C9: every edge of a gene and a disease with a numeric year has a row with
\* first_mention the smallest year, peak_count the largest number of
\* occurrences of one year (reached by peak_year), total_mentions the
\* number of numeric entries, time_to_peak = peak_year - first_mention >= 0,
\* burstiness = peak_count / total_mentions, annual_counts the histogram
\* with ascending years whose counts sum to total_mentions.
C9_EdgeStatistics ==
    g_pc = "analyzed" =>
        \A gene \in GraphGenes, disease \in GraphDiseases :
            Qualifies(gene, disease) =>
                LET years == EdgeYears(gene, disease)
                    rows == SelectSeq(report.rows,
                                LAMBDA r : r.gene = gene /\ r.disease = disease)
                    row == rows[1]
                    hist == row.annual_counts
                IN /\ ~report.raised
                   /\ Len(rows) = 1
                   /\ row.first_mention = SetMin(Range(years))
                   /\ row.peak_count = MostMentions(years)
                   /\ Count(years, row.peak_year) = row.peak_count
                   /\ row.total_mentions = Len(years)
                   /\ row.time_to_peak = row.peak_year - row.first_mention
                   /\ row.time_to_peak >= 0
                   /\ row.burstiness = [num |-> row.peak_count, den |-> row.total_mentions]
                   /\ {hist[i][1] : i \in DOMAIN hist} = Range(years)
                   /\ \A i \in DOMAIN hist : hist[i][2] = Count(years, hist[i][1])
                   /\ \A i, j \in DOMAIN hist : i < j => hist[i][1] < hist[j][1]
                   /\ SumCounts(hist) = row.total_mentions

\* the edge with years 2000, 2000, 2001 has first_mention 2000, peak_year
\* 2000, peak_count 2, total_mentions 3, time_to_peak 0, burstiness 2/3
C9_Witness ==
    /\ g_pc = "analyzed"
    /\ \E i \in DOMAIN report.rows :
          LET row == report.rows[i]
          IN /\ G.attrs[{row.gene, row.disease}].years = <<Y2000, Y2000, Y2001>>
             /\ row.first_mention = 2000
             /\ row.peak_year = 2000
             /\ row.peak_count = 2
             /\ row.total_mentions = 3
             /\ row.time_to_peak = 0
             /\ row.burstiness = [num |-> 2, den |-> 3]
             /\ row.annual_counts = <<<<2000, 2>>, <<2001, 1>>>>

\* C10: the reported peak_year is the smallest of the years that share the
\* largest count, in whatever order the edge's evidence was appended.
C10_SmallestTiedYear ==
    g_pc = "analyzed" =>
        \A i \in DOMAIN report.rows :
            LET row == report.rows[i]
                years == EdgeYears(row.gene, row.disease)
            IN row.peak_year =
                   SetMin({y \in Range(years) : Count(years, y) = MostMentions(years)})

\* the rows of the edges in the order G.edges yields them, before the sort
Unsorted == LET es == edges(G) IN Flatten([i \in DOMAIN es |-> EdgeRows(G, es[i])])

\* C11: in the report of any graph, total_mentions never increases from one
\* row to the next.
C11_RowsSorted ==
    g_pc = "analyzed" =>
        \A i, j \in DOMAIN report.rows :
            i < j => report.rows[i].total_mentions >= report.rows[j].total_mentions

\* two edges gave rows, the one met first with fewer mentions, and the report
\* lists them the other way round
C11_Witness ==
    /\ g_pc = "analyzed"
    /\ Len(report.rows) = 2
    /\ report.rows # Unsorted
    /\ report.rows[1].total_mentions > report.rows[2].total_mentions

(***************************************************************************)
(* Claims on years without results and on failed batches                   *)
(***************************************************************************)
\* the step issues the search of local.year
SearchIssued ==
    /\ pc = "loop"
    /\ Len(local'.searched) > Len(local.searched) \/ exit' = "raised"

\* a year that is not current and whose search gave the empty list is
\* completed by the step that searched it, and the step adds no record
EmptyYearCompleted ==
    \A y \in local'.emptied \ local.emptied :
        /\ y \in Range(local'.data.completed_years)
        /\ local'.data.records = local.data.records

\* a run that reaches its end with such a year saves, and the saved file
\* lists the year
EmptyYearsSaved ==
    /\ (pc = "loop" /\ pc' \in {"dump", "return"} /\ local.emptied # {}) => pc' = "dump"
    /\ (pc = "dump" /\ pc' = "return") =>
           local.emptied \subseteq Range(_load_data(disk').completed_years)

\* C12: a year of the range that is not the current year and whose search
\* returns the empty list is added to completed_years by that step, which
\* adds no record; the run saves it at its end; and no later run searches a
\* year that a saved run had completed in this way.
C12_EmptyYearCompleted ==
    [][/\ EmptyYearCompleted
       /\ EmptyYearsSaved
       /\ SearchIssued => local.year \notin settled]_vars

\* C12 but for the year that has become the current year since it was saved
C12_ExceptCurrentYear ==
    [][/\ EmptyYearCompleted
       /\ EmptyYearsSaved
       /\ SearchIssued => (local.year \notin settled \/ local.year = now)]_vars

\* the response that settles a batch: the first within max_retries that is
\* no 429 (none when all of them are)
Settling(resps) ==
    LET at == FirstAnswered(resps)
    IN IF at = {} THEN R429 ELSE resps[CHOOSE i \in at : TRUE]
BatchFailed(resps) == LET r == Settling(resps) IN r.status = 429 \/ IsHttpError(r)
BatchRecords(resps) == IF BatchFailed(resps) THEN <<>> ELSE Settling(resps).body

\* C13: the identifiers are requested in consecutive batches of batch_size
\* (the last one may be shorter); unless a 200 response is no XML, the call
\* does not raise and returns, in batch order, the records of every batch
\* that was answered, before or after a batch that failed on an HTTP error
\* or on max_retries rate-limited attempts, and nothing for a failed batch.
C13_FailedBatchContained ==
    f_out.called =>
        LET n == Len(f_pmids)
            count == IF n % BATCH_SIZE = 0 THEN n \div BATCH_SIZE ELSE (n \div BATCH_SIZE) + 1
        IN (\A b \in 1..count : Settling(f_resps[b]).parses) =>
              /\ ~f_out.raised
              /\ Len(f_out.batches) = count
              /\ Flatten(f_out.batches) = f_pmids
              /\ \A b \in 1..count :
                    Len(f_out.batches[b]) = IF b < count THEN BATCH_SIZE
                                            ELSE n - (count - 1) * BATCH_SIZE
              /\ f_out.records =
                    Flatten([b \in 1..count |-> BatchRecords(f_resps[b])])

\* the first batch failed on an HTTP error, the second was rate-limited
\* twice and then answered, and its record is what the call returned
C13_Witness ==
    /\ f_out.called
    /\ Len(f_out.batches) = 2
    /\ f_resps[1][1].status = 500
    /\ f_resps[2][1].status = 429
    /\ f_resps[2][2].status = 429
    /\ f_resps[2][3].status = 200
    /\ f_resps[2][3].parses
    /\ f_out.records = f_resps[2][3].body
    /\ f_out.records # <<>>

(***************************************************************************)
(* Claims on packed identifiers                                            *)
(***************************************************************************)
Separators == {";", ","}

\* the identifiers a raw string packs, as the claim reads it: the pieces
\* between separators of either kind, blanks around them removed, empty
\* pieces left out
RECURSIVE Packed(_, _)
Packed(raw, piece) ==
    LET close == IF strip(piece) = <<>> THEN <<>> ELSE <<strip(piece)>>
    IN IF raw = <<>> THEN close
       ELSE IF Head(raw) \in Separators THEN close \o Packed(Tail(raw), <<>>)
       ELSE Packed(Tail(raw), Append(piece, Head(raw)))

\* the entries recorded at the place of a tag
EntriesAt(tag) ==
    LET all == IF tag.type = "gene" THEN p_ann[tag.pmid].genes
               ELSE p_ann[tag.pmid].diseases
    IN SelectSeq(all, LAMBDA e : e[1] = tag.loc.offset
                                 /\ e[2] = tag.loc.offset + tag.loc.length)

SpanEntries(tag, ids) ==
    LET mine == EntriesAt(tag)
    IN /\ Len(mine) = Len(ids)
       /\ \A i \in DOMAIN mine :
             /\ mine[i][4] = ids[i]
             /\ Range(mine[i][4]) \cap Separators = {}
             /\ mine[i][3] = SubSeq(PassageText, tag.loc.offset + 1,
                                    tag.loc.offset + tag.loc.length)

\* C14: a tag whose raw identifier packs n non-empty identifiers joined by
\* semicolons and/or commas has n entries, one per identifier in order,
\* none of them holding a semicolon or a comma, all with the start, end and
\* snippet of the tag.
C14_OneEntryPerIdentifier ==
    p_pc = "extract" =>
        \A k \in DOMAIN p_denots :
            SpanEntries(p_denots[k], Packed(p_denots[k].identifier, <<>>))

\* C14 for the tags whose identifiers are joined by one kind of separator
C14_OneKindOfSeparator ==
    p_pc = "extract" =>
        \A k \in DOMAIN p_denots :
            ~(Separators \subseteq Range(p_denots[k].identifier)) =>
                SpanEntries(p_denots[k], Packed(p_denots[k].identifier, <<>>))

(***************************************************************************)
(* Claims on the shape of the graph                                        *)
(***************************************************************************)
\* validity as the claim spells it out
HasPrefix(id, prefix) ==
    Len(id) >= Len(prefix) /\ \A i \in 1..Len(prefix) : id[i] = prefix[i]
ValidPair(pair) ==
    /\ DigitOnly(pair[2])
    /\ \/ HasPrefix(pair[3], <<"M", "E", "S", "H", ":">>)
       \/ HasPrefix(pair[3], <<"O", "M", "I", "M", ":">>)
       \/ DThenDigits(pair[3])
ValidPairs == SelectSeq(g_pairs, ValidPair)
PairsOf(gene, disease) ==
    SelectSeq(ValidPairs, LAMBDA pair : pair[2] = gene /\ pair[3] = disease)

\* C15: the edges are exactly the (gene, disease) combinations of the valid
\* pairs folded, one edge each; an edge's evidence has one entry per valid
\* pair of its gene and disease; every edge joins a node of type gene and a
\* node of type disease; the nodes are the genes and diseases of the valid
\* pairs, so that an invalid pair leaves no node, edge or evidence.
C15_OneEdgePerCombination ==
    /\ DOMAIN G.attrs =
          {{ValidPairs[i][2], ValidPairs[i][3]} : i \in DOMAIN ValidPairs}
    /\ Len(edges(G)) = Cardinality(DOMAIN G.attrs)
    /\ \A i \in DOMAIN ValidPairs :
          LET gene == ValidPairs[i][2]
              disease == ValidPairs[i][3]
              evidence == G.attrs[{gene, disease}]
          IN /\ Len(evidence.pmids) = Len(PairsOf(gene, disease))
             /\ Len(evidence.years) = Len(PairsOf(gene, disease))
             /\ G.type[gene] = "gene"
             /\ G.type[disease] = "disease"
    /\ Range(G.nodes) =
          {ValidPairs[i][2] : i \in DOMAIN ValidPairs}
          \cup {ValidPairs[i][3] : i \in DOMAIN ValidPairs}
    /\ NoDup(G.nodes)

\* three pairs were folded: two valid ones of the same gene and disease and
\* an invalid one of another gene, and the graph is one edge with two
\* entries between two nodes
C15_Witness ==
    /\ Len(g_pairs) = 3
    /\ Len(ValidPairs) = 2
    /\ \E i \in DOMAIN g_pairs : ~ValidPair(g_pairs[i]) /\ g_pairs[i][2] # ValidPairs[1][2]
    /\ Cardinality(DOMAIN G.attrs) = 1
    /\ Len(G.nodes) = 2
    /\ Len(G.attrs[{ValidPairs[1][2], ValidPairs[1][3]}].pmids) = 2

(***************************************************************************)
(* Claims on the rows of the report                                        *)
(***************************************************************************)
\* the edges of one gene-typed and one disease-typed node with a numeric
\* year, as (gene, disease)
QualifyingEdges ==
    {e \in Range(G.nodes) \X Range(G.nodes) :
        /\ {e[1], e[2]} \in DOMAIN G.attrs
        /\ G.type[e[1]] = "gene"
        /\ G.type[e[2]] = "disease"
        /\ \E i \in DOMAIN G.attrs[{e[1], e[2]}].years :
              DigitOnly(G.attrs[{e[1], e[2]}].years[i])}

RowsOfQualifyingEdges ==
    /\ \A e \in QualifyingEdges :
          Cardinality({i \in DOMAIN report.rows :
              report.rows[i].gene = e[1] /\ report.rows[i].disease = e[2]}) = 1
    /\ \A i \in DOMAIN report.rows :
          <<report.rows[i].gene, report.rows[i].disease>> \in QualifyingEdges
    /\ Len(report.rows) = Cardinality(QualifyingEdges)

\* C16: the report of any graph has exactly one row for each qualifying edge
\* and no other row, and the call does not fail, also when no edge
\* qualifies.
C16_OneRowPerQualifyingEdge ==
    g_pc = "analyzed" => (~report.raised /\ RowsOfQualifyingEdges)

\* C16 for the graphs in which some edge qualifies
C16_WhenSomeEdgeQualifies ==
    (g_pc = "analyzed" /\ QualifyingEdges # {}) =>
        (~report.raised /\ RowsOfQualifyingEdges)

====
